---- MODULE Spec2Model ----
(***************************************************************************)
(* file_bundler (src/src/main.rs): walk a directory, skip entries by three *)
(* exclusion lists read from a YAML file, and append every other regular   *)
(* file to one output file between START FILE / END FILE marker lines.     *)
(*                                                                         *)
(* Text is a sequence of symbols.  Most symbols are one character ("a",    *)
(* "/", "\n", ...); three stand for the fixed pieces of the marker lines:  *)
(*   "S" = `--- START FILE: `   "T" = ` ---`   "E" = `--- END FILE ---`    *)
(* and "#" is a byte that is not valid UTF-8.  A file may hold any symbol, *)
(* so a file may hold a line that reads exactly like a marker line.        *)
(***************************************************************************)
EXTENDS Integers, Sequences, FiniteSets, TLC

\* ---- bounds of the model ------------------------------------------------
\* entries (files and directories) below the walk root, in the broad trees
MaxNodes == 3
\* entries over the three exclusion lists of a configuration together
MaxEntries == 1
\* symbols of the one file of a single-file tree
MaxBytes == 3

\* ---- text helpers -------------------------------------------------------
LF == "\n"
CR == "\r"
BadByte == "#"

Range(s) == {s[i] : i \in 1..Len(s)}

\* str::starts_with
StartsWith(s, p) ==
    /\ Len(p) <= Len(s)
    /\ SubSeq(s, 1, Len(p)) = p

RECURSIVE Concat(_)
Concat(ss) == IF ss = <<>> THEN <<>> ELSE Head(ss) \o Concat(Tail(ss))

\* all sequences over S of length at most n
RECURSIVE SeqsUpTo(_, _)
SeqsUpTo(S, n) ==
    IF n = 0 THEN {<<>>}
    ELSE LET shorter == SeqsUpTo(S, n - 1)
         IN  shorter \cup {Append(s, x) : s \in shorter, x \in S}

\* ---- paths --------------------------------------------------------------
\* A path below the walk root is its sequence of component names; the walk
\* root itself is <<>>.  Names are one character long.
Names == {"a", "b"}

\* Path::strip_prefix(root) followed by to_string_lossy: the components
\* joined by "/", the empty string for the root itself.
RECURSIVE rel_str(_)
rel_str(path) ==
    IF path = <<>> THEN <<>>
    ELSE IF Len(path) = 1 THEN <<path[1]>>
    ELSE <<path[1], "/">> \o rel_str(Tail(path))

Parent(path) == SubSeq(path, 1, Len(path) - 1)

\* p lies strictly beneath directory d
Beneath(p, d) == Len(p) > Len(d) /\ SubSeq(p, 1, Len(d)) = d

\* ---- globset ------------------------------------------------------------
\* Glob::new with default options: "*" and "?" are wildcards, "[" opens a
\* character class and a class that no "]" closes is an error; any other
\* character is a literal.  (No pattern drawn here holds a closed class.)
GlobNew(pat) ==
    IF "[" \in Range(pat) /\ "]" \notin Range(pat)
    THEN [ok |-> FALSE, tokens |-> <<>>]
    ELSE [ok |-> TRUE, tokens |-> pat]

\* One glob against a whole path string.  literal_separator is off by
\* default, so "*" and "?" also match "/".
RECURSIVE GlobMatch(_, _)
GlobMatch(tokens, s) ==
    IF tokens = <<>> THEN s = <<>>
    ELSE IF Head(tokens) = "*"
         THEN \E k \in 0..Len(s) : GlobMatch(Tail(tokens), SubSeq(s, k + 1, Len(s)))
    ELSE IF s = <<>> THEN FALSE
    ELSE IF Head(tokens) = "?" THEN GlobMatch(Tail(tokens), Tail(s))
    ELSE Head(tokens) = Head(s) /\ GlobMatch(Tail(tokens), Tail(s))

\* GlobSet::is_match: some glob of the set matches
is_match(globset, s) == \E i \in 1..Len(globset) : GlobMatch(globset[i], s)

\* ---- BufRead::lines -----------------------------------------------------
\* index of the first LF of bytes, 0 when there is none
RECURSIVE FirstLF(_, _)
FirstLF(bytes, i) ==
    IF i > Len(bytes) THEN 0
    ELSE IF bytes[i] = LF THEN i
    ELSE FirstLF(bytes, i + 1)

\* A line loses its trailing LF and, only then, one trailing CR.
StripCR(seg) ==
    IF seg # <<>> /\ seg[Len(seg)] = CR THEN SubSeq(seg, 1, Len(seg) - 1) ELSE seg

\* The lines of a byte string: split after every LF; what follows the last
\* LF is a line when it is not empty, and keeps a trailing CR.
RECURSIVE lines(_)
lines(bytes) ==
    IF bytes = <<>> THEN <<>>
    ELSE LET i == FirstLF(bytes, 1)
         IN  IF i = 0 THEN <<bytes>>
             ELSE <<StripCR(SubSeq(bytes, 1, i - 1))>> \o lines(SubSeq(bytes, i + 1, Len(bytes)))

\* a line decodes when it holds no invalid byte
Decodes(bytes) == BadByte \notin Range(bytes)

\* ---- marker lines -------------------------------------------------------
StartLine(path) == <<"S">> \o rel_str(path) \o <<"T">>
EndLine == <<"E">>

\* ---- the filesystem below the walk root ----------------------------------
\* A node is a directory or a regular file.  ok: the directory can be listed
\* (read_dir succeeds) / the file can be opened.  bytes: the file's content.
DirNode(p, listable) == [path |-> p, kind |-> "dir", ok |-> listable, bytes |-> <<>>]
FileNode(p, openable, bytes) == [path |-> p, kind |-> "file", ok |-> openable, bytes |-> bytes]

TextBytes == <<"x", LF>>

\* the nodes a broad tree may hold at path p: a directory, listable or not,
\* and a text file, openable or not
NodeVariants(p) ==
    {DirNode(p, b) : b \in BOOLEAN}
    \cup {FileNode(p, b, TextBytes) : b \in BOOLEAN}

PathsOf(tree) == {n.path : n \in tree}
Node(tree, p) == CHOOSE n \in tree : n.path = p
IsDir(tree, p) == Node(tree, p).kind = "dir"
IsFile(tree, p) == Node(tree, p).kind = "file"

\* the trees that are `tree` and one more entry in one of its directories
Grow(tree) ==
    LET free == {p \in {Append(d.path, nm) : d \in {m \in tree : m.kind = "dir"}, nm \in Names} :
                    p \notin PathsOf(tree)}
    IN  {tree \cup {n} : n \in UNION {NodeVariants(p) : p \in free}}

\* the trees of at most n entries below a listable root
RECURSIVE TreesUpTo(_)
TreesUpTo(n) ==
    IF n = 0 THEN {{DirNode(<<>>, TRUE)}}
    ELSE LET smaller == TreesUpTo(n - 1)
         IN  smaller \cup UNION {Grow(t) : t \in smaller}

\* the alphabet of the one file of a single-file tree
ByteAlphabet == {"x", LF, CR, BadByte, "E"}

\* a root whose only entry is the file "a", with every content up to MaxBytes
SingleFileTrees ==
    {{DirNode(<<>>, TRUE), FileNode(<<"a">>, TRUE, bytes)} :
        bytes \in SeqsUpTo(ByteAlphabet, MaxBytes)}

\* a root that cannot be listed
UnlistableRoot == {{DirNode(<<>>, FALSE), FileNode(<<"a">>, TRUE, TextBytes)}}

Trees == TreesUpTo(MaxNodes) \cup SingleFileTrees \cup UnlistableRoot

\* the children of directory d, as read_dir lists them
Children(tree, d) == {p \in PathsOf(tree) : Len(p) = Len(d) + 1 /\ Parent(p) = d}

\* the orders in which a set of paths can be listed
RECURSIVE Orders(_)
Orders(S) ==
    IF S = {} THEN {<<>>}
    ELSE UNION {{<<p>> \o o : o \in Orders(S \ {p})} : p \in S}

\* ---- the configuration source -------------------------------------------
Keys == {"exclude_dirs", "exclude_files", "exclude_patterns"}

DirCands == {<<>>, <<"a">>, <<"b">>, <<"a", "/", "b">>}
FileCands == {<<"a">>, <<"a", "/", "b">>}
PatCands == {<<"*", "b">>, <<"a", "/", "?">>, <<"[">>}

\* the lists a document may give: MaxEntries entries at most over the three
Lists ==
    {l \in [exclude_dirs : SeqsUpTo(DirCands, MaxEntries),
            exclude_files : SeqsUpTo(FileCands, MaxEntries),
            exclude_patterns : SeqsUpTo(PatCands, MaxEntries)] :
        Len(l.exclude_dirs) + Len(l.exclude_files) + Len(l.exclude_patterns) <= MaxEntries}

\* a syntactically valid document: the keys it has and their lists
Docs ==
    UNION {{[state |-> "valid", keys |-> ks, lists |-> l] :
                l \in {m \in Lists : \A k \in Keys \ ks : m[k] = <<>>}} :
           ks \in SUBSET Keys}

EmptyLists == [exclude_dirs |-> <<>>, exclude_files |-> <<>>, exclude_patterns |-> <<>>]

\* the configuration path: no such file, a file that cannot be read, a file
\* that is not YAML, or a document
ConfigSources ==
    {[state |-> st, keys |-> {}, lists |-> EmptyLists] :
        st \in {"absent", "unreadable", "malformed"}}
    \cup Docs

\* a Default that is not empty
ConfigDefaultNamesA ==
    [exclude_dirs |-> <<>>, exclude_files |-> <<(<<"a">>)>>, exclude_patterns |-> <<>>]

\* Config::default()
ConfigDefault == EmptyLists

\* serde_yaml::from_str::<Config>: the derived Deserialize has no
\* #[serde(default)], so a document that lacks a field is an error
from_str(src) ==
    IF src.state = "valid" /\ src.keys = Keys
    THEN [ok |-> TRUE, config |-> src.lists]
    ELSE [ok |-> FALSE, config |-> ConfigDefault]
\* should_skip without its exclude_files test
should_skip_ignoring_files(path, kind, exclude_dirs, exclude_files, exclude_patterns) ==
    LET s == rel_str(path)
    IN  IF kind = "dir"
        THEN \E i \in 1..Len(exclude_dirs) : s = exclude_dirs[i]
        ELSE \/ \E i \in 1..Len(exclude_dirs) : StartsWith(s, exclude_dirs[i] \o <<"/">>)
             \/ is_match(exclude_patterns, s)

\* should_skip matching a directory by its file name, not its relative path
should_skip_by_file_name(path, kind, exclude_dirs, exclude_files, exclude_patterns) ==
    LET s == rel_str(path)
        name == IF path = <<>> THEN <<>> ELSE <<path[Len(path)]>>
    IN  IF kind = "dir"
        THEN \E i \in 1..Len(exclude_dirs) : name = exclude_dirs[i]
        ELSE \/ \E i \in 1..Len(exclude_dirs) : StartsWith(s, exclude_dirs[i] \o <<"/">>)
             \/ \E i \in 1..Len(exclude_files) : exclude_files[i] = s
             \/ is_match(exclude_patterns, s)

\* ---- should_skip --------------------------------------------------------
\* A directory is skipped when its relative path equals an exclude_dirs
\* entry.  Anything else is skipped when its relative path starts with
\* "<entry>/", equals an exclude_files entry, or matches a glob.
should_skip(path, kind, exclude_dirs, exclude_files, exclude_patterns) ==
    LET s == rel_str(path)
    IN  IF kind = "dir"
        THEN \E i \in 1..Len(exclude_dirs) : s = exclude_dirs[i]
        ELSE LET is_in_excluded_dir ==
                     \E i \in 1..Len(exclude_dirs) :
                         StartsWith(s, exclude_dirs[i] \o <<"/">>)
             IN  \/ is_in_excluded_dir
                 \/ \E i \in 1..Len(exclude_files) : exclude_files[i] = s
                 \/ is_match(exclude_patterns, s)

\* ---- process_file -------------------------------------------------------
\* The output file is the sequence of the writes made to it; its text is
\* their concatenation.
Write(call, data) == [call |-> call, data |-> data]

\* the String built by the read loop: every line followed by one LF
RECURSIVE Content(_)
Content(ls) == IF ls = <<>> THEN <<>> ELSE Head(ls) \o <<LF>> \o Content(Tail(ls))

\* where a write to the output may fail: the start marker, the content, the
\* end marker.  A failed write leaves nothing in the file.  Writing an empty
\* content makes no system call and cannot fail.
Faults == {"none", "w1", "w2", "w3"}

\* process_file writing the start marker before it opens the file
process_file_marker_first(node, fault, out) ==
    LET w1 == Append(out, Write("start", StartLine(node.path) \o <<LF>>))
    IN  IF fault = "w1" THEN [ok |-> FALSE, err |-> "write", out |-> out]
        ELSE IF ~node.ok THEN [ok |-> FALSE, err |-> "open", out |-> w1]
        ELSE IF ~Decodes(node.bytes) THEN [ok |-> FALSE, err |-> "read", out |-> w1]
        ELSE LET content == Content(lines(node.bytes))
                 w2 == Append(w1, Write("content", content))
                 w3 == Append(w2, Write("end", EndLine \o <<LF, LF>>))
             IN  IF fault = "w2" /\ content # <<>>
                 THEN [ok |-> FALSE, err |-> "write", out |-> w1]
                 ELSE IF fault = "w3" THEN [ok |-> FALSE, err |-> "write", out |-> w2]
                 ELSE [ok |-> TRUE, err |-> "none", out |-> w3]

\* process_file on a file node, with the output as it is before the call
\* and the write that fails, if any.  Result: ok, the error, the output.
process_file(node, fault, out) ==
    IF ~node.ok THEN [ok |-> FALSE, err |-> "open", out |-> out]
    ELSE IF ~Decodes(node.bytes) THEN [ok |-> FALSE, err |-> "read", out |-> out]
    ELSE LET content == Content(lines(node.bytes))
             w1 == Append(out, Write("start", StartLine(node.path) \o <<LF>>))
             w2 == Append(w1, Write("content", content))
             w3 == Append(w2, Write("end", EndLine \o <<LF, LF>>))
         IN  IF fault = "w1" THEN [ok |-> FALSE, err |-> "write", out |-> out]
             ELSE IF fault = "w2" /\ content # <<>>
                  THEN [ok |-> FALSE, err |-> "write", out |-> w1]
             ELSE IF fault = "w3" THEN [ok |-> FALSE, err |-> "write", out |-> w2]
             ELSE [ok |-> TRUE, err |-> "none", out |-> w3]

\* ---- state --------------------------------------------------------------
VARIABLES
    fs,                  \* the tree below input_dir, as the walk finds it
    cfgSrc,              \* what lies at config_path
    pc,                  \* where main is: load, globs, create, walk, done, fatal
    config,              \* the Config main holds
    exclude_pattern_set, \* the compiled GlobSet
    created,             \* File::create has succeeded
    output,              \* the writes made to the output file
    stack,               \* WalkDir: the entries still to yield, next first
    visited,             \* the entries the loop has seen, with should_skip's answer
    stdout,              \* the notices printed
    stderr,              \* the warnings printed: the path and the error
    exitStatus           \* running, success, failure

vars == <<fs, cfgSrc, pc, config, exclude_pattern_set, created, output, stack,
          visited, stdout, stderr, exitStatus>>

\* main has validated its arguments and input_dir (lines 17-27).  It does
\* not look below input_dir before the walk, so the tree is drawn when the
\* walk starts.
Init ==
    /\ fs = {}
    /\ cfgSrc \in ConfigSources
    /\ pc = "load"
    /\ config = ConfigDefault
    /\ exclude_pattern_set = <<>>
    /\ created = FALSE
    /\ output = <<>>
    /\ stack = <<>>
    /\ visited = <<>>
    /\ stdout = <<>>
    /\ stderr = <<>>
    /\ exitStatus = "running"

\* `?` on an Err in main: the error is returned and the process exits non-zero
Fatal ==
    /\ pc' = "fatal"
    /\ exitStatus' = "failure"

\* the load falling back to the defaults when the file cannot be read or
\* parsed (unwrap_or_default in place of `?`)
LoadConfigOrDefault ==
    /\ pc = "load"
    /\ IF cfgSrc.state = "absent"
       THEN /\ stdout' = Append(stdout, "no_config_found")
            /\ config' = ConfigDefault
       ELSE /\ stdout' = stdout
            /\ config' = IF cfgSrc.state = "valid" /\ from_str(cfgSrc).ok
                         THEN from_str(cfgSrc).config ELSE ConfigDefault
    /\ pc' = "globs"
    /\ UNCHANGED <<fs, cfgSrc, exclude_pattern_set, created, output, stack, visited,
                   stderr, exitStatus>>

\* lines 29-36: read and parse the configuration, or take the defaults
LoadConfig ==
    /\ pc = "load"
    /\ IF cfgSrc.state = "absent"
       THEN /\ stdout' = Append(stdout, "no_config_found")
            /\ config' = ConfigDefault
            /\ pc' = "globs"
            /\ UNCHANGED exitStatus
       ELSE IF cfgSrc.state = "unreadable"
       THEN Fatal /\ UNCHANGED <<stdout, config>>
       ELSE LET parsed == from_str(cfgSrc)
            IN  IF parsed.ok
                THEN /\ config' = parsed.config
                     /\ pc' = "globs"
                     /\ UNCHANGED <<stdout, exitStatus>>
                ELSE Fatal /\ UNCHANGED <<stdout, config>>
    /\ UNCHANGED <<fs, cfgSrc, exclude_pattern_set, created, output, stack, visited, stderr>>

\* lines 38-45: compile every pattern; an invalid one is fatal
BuildGlobSet ==
    /\ pc = "globs"
    /\ IF \A i \in 1..Len(config.exclude_patterns) : GlobNew(config.exclude_patterns[i]).ok
       THEN /\ exclude_pattern_set' =
                   [i \in 1..Len(config.exclude_patterns) |->
                       GlobNew(config.exclude_patterns[i]).tokens]
            /\ pc' = "create"
            /\ UNCHANGED exitStatus
       ELSE Fatal /\ UNCHANGED exclude_pattern_set
    /\ UNCHANGED <<fs, cfgSrc, config, created, output, stack, visited, stdout, stderr>>

\* lines 47-49: create (and truncate) the output file, then start the walk
\* at the root of whatever tree lies below input_dir
CreateOutput ==
    /\ pc = "create"
    /\ \E ok \in BOOLEAN :
          IF ok
          THEN /\ created' = TRUE
               /\ output' = <<>>
               /\ fs' \in Trees
               /\ stack' = <<(<<>>)>>
               /\ pc' = "walk"
               /\ UNCHANGED exitStatus
          ELSE Fatal /\ UNCHANGED <<created, output, fs, stack>>
    /\ UNCHANGED <<cfgSrc, config, exclude_pattern_set, visited, stdout, stderr>>

\* an Err of process_file returned from main with `?`
file_error_propagates == "fatal"

\* lines 55-57: an Err of process_file is printed and the loop goes on
file_error_pc == "walk"

\* lines 49-59: one turn of the loop.  WalkDir yields the next entry and
\* will go on to list it when it is a directory, whatever the loop body
\* does with it: `continue` does not prune.  A directory that cannot be
\* listed yields an Err that filter_map drops.
WalkStep ==
    /\ pc = "walk"
    /\ stack # <<>>
    /\ LET path == Head(stack)
           node == Node(fs, path)
           skip == should_skip(path, node.kind, config.exclude_dirs,
                               config.exclude_files, exclude_pattern_set)
       IN  /\ visited' = Append(visited, [path |-> path, skip |-> skip])
           /\ IF node.kind = "dir" /\ node.ok
              THEN \E order \in Orders(Children(fs, path)) : stack' = order \o Tail(stack)
              ELSE stack' = Tail(stack)
           /\ IF ~skip /\ node.kind = "file"
              THEN \E fault \in Faults :
                      LET r == process_file(node, fault, output)
                      IN  /\ output' = r.out
                          /\ IF r.ok
                             THEN UNCHANGED <<stderr, pc, exitStatus>>
                             ELSE /\ stderr' = Append(stderr, [path |-> path, err |-> r.err])
                                  /\ pc' = file_error_pc
                                  /\ exitStatus' = IF file_error_pc = "fatal"
                                                   THEN "failure" ELSE exitStatus
              ELSE UNCHANGED <<output, stderr, pc, exitStatus>>
    /\ UNCHANGED <<fs, cfgSrc, config, exclude_pattern_set, created, stdout>>

\* lines 61-62: the walk is exhausted
Finish ==
    /\ pc = "walk"
    /\ stack = <<>>
    /\ stdout' = Append(stdout, "bundle_created")
    /\ pc' = "done"
    /\ exitStatus' = "success"
    /\ UNCHANGED <<fs, cfgSrc, config, exclude_pattern_set, created, output, stack,
                   visited, stderr>>

Next ==
    \/ LoadConfig
    \/ BuildGlobSet
    \/ CreateOutput
    \/ WalkStep
    \/ Finish

Spec == Init /\ [][Next]_vars
\* ---- reading the state ---------------------------------------------------
Files == {n \in fs : n.kind = "file"}
Dirs == {n \in fs : n.kind = "dir"}

VisitedPaths == {visited[i].path : i \in 1..Len(visited)}

\* the walk can reach p: every directory above p can be listed
Reachable(p) == \A d \in Dirs : Beneath(p, d.path) => d.ok

\* the START FILE markers written for p
StartWrites(p) ==
    {i \in 1..Len(output) :
        output[i].call = "start" /\ output[i].data = StartLine(p) \o <<LF>>}

\* a START FILE marker at i is followed by its content and its END FILE marker
Closed(i) ==
    /\ i + 2 <= Len(output)
    /\ output[i + 1].call = "content"
    /\ output[i + 2].call = "end"

\* a warning was printed for p with this error
Warned(p, err) == \E i \in 1..Len(stderr) : stderr[i] = [path |-> p, err |-> err]

\* process_file returned Ok for the file at p
Bundled(p) ==
    /\ StartWrites(p) # {}
    /\ \A i \in StartWrites(p) : Closed(i)
    /\ ~Warned(p, "write")

\* the configuration excludes the file at p, in the words of the exclusion
\* rules: under "<d>/", named in exclude_files, or matched by a pattern
ExcludedFile(p) ==
    \/ \E d \in Range(config.exclude_dirs) : StartsWith(rel_str(p), d \o <<"/">>)
    \/ rel_str(p) \in Range(config.exclude_files)
    \/ \E g \in Range(config.exclude_patterns) : GlobMatch(g, rel_str(p))

\* the text of the output file
ArtifactText == Concat([i \in 1..Len(output) |-> output[i].data])

\* a text cut at every LF, the LF dropped
RECURSIVE SplitLF(_)
SplitLF(text) ==
    IF text = <<>> THEN <<>>
    ELSE LET i == FirstLF(text, 1)
         IN  IF i = 0 THEN <<text>>
             ELSE <<SubSeq(text, 1, i - 1)>> \o SplitLF(SubSeq(text, i + 1, Len(text)))

\* the first index from i on at which ls holds line l, 0 when there is none
RECURSIVE IndexFrom(_, _, _)
IndexFrom(ls, l, i) ==
    IF i > Len(ls) THEN 0
    ELSE IF ls[i] = l THEN i
    ELSE IndexFrom(ls, l, i + 1)

\* what a reader of the artifact takes for the content of p: the lines
\* between p's START FILE line and the next END FILE line
Extract(p) ==
    LET ls == SplitLF(ArtifactText)
        i == IndexFrom(ls, StartLine(p), 1)
        j == IF i = 0 THEN 0 ELSE IndexFrom(ls, EndLine, i + 1)
    IN  IF i = 0 \/ j = 0 THEN <<>> ELSE SubSeq(ls, i + 1, j - 1)
\* ---- claims -------------------------------------------------------------

\* C1 as stated: when the run has finished, a file the configuration
\* excludes has no START FILE block in the artifact and every other regular
\* file under the root has exactly one.
C1_AsStated ==
    pc = "done" =>
        \A f \in Files :
            IF ExcludedFile(f.path)
            THEN StartWrites(f.path) = {}
            ELSE Cardinality(StartWrites(f.path)) = 1

\* C1, amended: when the run has finished, a file the configuration
\* excludes has no START FILE block; any other file has at most one; it has
\* none when it cannot be opened or decoded or the walk cannot reach it; and
\* it has exactly one, closed by its END FILE marker, when the walk reaches
\* it, it opens and decodes, and no write for it failed.
C1_ExclusionDecidesBlocks ==
    pc = "done" =>
        \A f \in Files :
            LET starts == StartWrites(f.path)
                readable == f.ok /\ Decodes(f.bytes)
            IN  /\ ExcludedFile(f.path) => starts = {}
                /\ Cardinality(starts) <= 1
                /\ (~readable \/ ~Reachable(f.path)) => starts = {}
                /\ (~ExcludedFile(f.path) /\ Reachable(f.path) /\ readable
                        /\ ~Warned(f.path, "write"))
                     => /\ Cardinality(starts) = 1
                        /\ \A i \in starts : Closed(i)

\* C1's case: a finished run that left out a file the configuration excludes
\* and bundled, once, a file it does not exclude.
C1_Witness ==
    /\ pc = "done"
    /\ \E f \in Files : ExcludedFile(f.path) /\ StartWrites(f.path) = {}
    /\ \E f \in Files :
          /\ ~ExcludedFile(f.path)
          /\ Cardinality(StartWrites(f.path)) = 1
          /\ Bundled(f.path)

\* C2 as stated: when the run has finished, no file beneath a directory
\* whose relative path equals an exclude_dirs entry (the root, with relative
\* path "", included) has a block in the artifact.
C2_AsStated ==
    pc = "done" =>
        \A d \in Dirs :
            rel_str(d.path) \in Range(config.exclude_dirs) =>
                \A f \in Files : Beneath(f.path, d.path) => ~Bundled(f.path)

\* C3 as stated: the loop never sees an entry beneath a directory it has
\* skipped.
C3_AsStated ==
    \A i \in 1..Len(visited) : \A j \in 1..Len(visited) :
        (visited[i].skip /\ IsDir(fs, visited[i].path))
            => ~Beneath(visited[j].path, visited[i].path)

\* the configuration file exists and cannot be read or does not parse
ConfigBroken ==
    \/ cfgSrc.state = "unreadable"
    \/ cfgSrc.state = "malformed"
    \/ cfgSrc.state = "valid" /\ ~from_str(cfgSrc).ok

\* C4: when the configuration file exists and cannot be read or parsed, the
\* run goes from loading straight to the fatal state with a failure status,
\* no entry is ever visited and the output file is neither created nor
\* written.
C4_BrokenConfigIsFatalBeforeOutput ==
    ConfigBroken =>
        /\ pc \in {"load", "fatal"}
        /\ pc = "fatal" <=> exitStatus = "failure"
        /\ visited = <<>>
        /\ stack = <<>>
        /\ ~created
        /\ output = <<>>

\* C4's case: the run has ended fatally on a malformed configuration.
C4_Witness ==
    /\ cfgSrc.state = "malformed"
    /\ pc = "fatal"
    /\ exitStatus = "failure"

\* C5 as stated: loading a valid document, whatever keys it omits, succeeds
\* and gives the Config of its lists, the omitted ones empty.
C5_AsStated ==
    [][(pc = "load" /\ cfgSrc.state = "valid")
          => (pc' = "globs" /\ config' = cfgSrc.lists)]_vars

\* C6 as stated: when the run has finished, the lines between a bundled
\* file's START FILE line and the next END FILE line of the artifact are the
\* file's own lines.
C6_AsStated ==
    pc = "done" =>
        \A f \in Files : Bundled(f.path) => Extract(f.path) = lines(f.bytes)

\* every entry the walk can reach was seen, and every file that passed the
\* filter was handed to process_file: it is bundled or a warning names it
SurvivorsProcessed ==
    /\ \A n \in fs : Reachable(n.path) => n.path \in VisitedPaths
    /\ \A i \in 1..Len(visited) :
          (~visited[i].skip /\ IsFile(fs, visited[i].path))
              => \/ Bundled(visited[i].path)
                 \/ \E e \in {"open", "read", "write"} : Warned(visited[i].path, e)

\* the loop has seen entries of the tree only, and none twice
VisitedOnce ==
    /\ VisitedPaths \subseteq PathsOf(fs)
    /\ \A i \in 1..Len(visited) : \A j \in 1..Len(visited) :
          visited[i].path = visited[j].path => i = j

\* C7: every step of the walk, whether or not a file failed in it, either
\* stays in the walk with one more entry of the tree seen, and none seen
\* twice, or ends the run with success, every reachable entry seen and every
\* surviving file handed to process_file.  The walk never ends in the fatal
\* state, and it ends, the tree being finite.
C7_FileFailuresNeverAbort ==
    [][pc = "walk" =>
          \/ /\ pc' = "walk"
             /\ exitStatus' = "running"
             /\ Len(visited') = Len(visited) + 1
             /\ VisitedOnce'
          \/ /\ pc' = "done"
             /\ exitStatus' = "success"
             /\ stack = <<>>
             /\ SurvivorsProcessed']_vars

\* C7's case: a finished, successful run in which a file failed and a file
\* visited after it was bundled.
C7_Witness ==
    /\ pc = "done"
    /\ exitStatus = "success"
    /\ \E i \in 1..Len(visited) : \E j \in 1..Len(visited) :
          /\ i < j
          /\ \E e \in {"open", "read", "write"} : Warned(visited[i].path, e)
          /\ Bundled(visited[j].path)

\* C8 as stated: with no configuration file the notice is printed, the lists
\* are empty, nothing is skipped and a finished run has bundled every file
\* that can be opened and decoded.
C8_AsStated ==
    (cfgSrc.state = "absent" /\ pc # "load") =>
        /\ "no_config_found" \in Range(stdout)
        /\ config = EmptyLists
        /\ \A i \in 1..Len(visited) : ~visited[i].skip
        /\ pc = "done" =>
              \A f \in Files : (f.ok /\ Decodes(f.bytes)) => Bundled(f.path)

\* C8, amended: with no configuration file the load is not fatal, the notice
\* is printed, the lists are empty, nothing is skipped, and a finished run
\* has bundled every file that the walk can reach and that can be opened and
\* decoded, except the files for which a write to the artifact failed.
C8_AbsentConfigBundlesAll ==
    (cfgSrc.state = "absent" /\ pc # "load") =>
        /\ "no_config_found" \in Range(stdout)
        /\ config = EmptyLists
        /\ pc = "fatal" => (~created /\ visited = <<>>)
        /\ \A i \in 1..Len(visited) : ~visited[i].skip
        /\ pc = "done" =>
              \A f \in Files :
                  (Reachable(f.path) /\ f.ok /\ Decodes(f.bytes))
                      => (Bundled(f.path) \/ Warned(f.path, "write"))

\* C8's case: no configuration file, and the finished run has bundled a file
\* of the root and a file of a sub-directory.
C8_Witness ==
    /\ cfgSrc.state = "absent"
    /\ pc = "done"
    /\ \E f \in Files : Len(f.path) = 1 /\ Bundled(f.path)
    /\ \E f \in Files : Len(f.path) = 2 /\ Bundled(f.path)

\* C9: the loop skips a directory exactly when the directory's relative path
\* is an exclude_dirs entry.
C9_DirSkippedIffExactMatch ==
    \A i \in 1..Len(visited) :
        IsDir(fs, visited[i].path) =>
            (visited[i].skip <=> rel_str(visited[i].path) \in Range(config.exclude_dirs))

\* C9's case: the loop has seen, and not skipped, a nested directory whose
\* last component alone is an exclude_dirs entry.
C9_Witness ==
    \E i \in 1..Len(visited) :
        /\ IsDir(fs, visited[i].path)
        /\ Len(visited[i].path) = 2
        /\ <<visited[i].path[2]>> \in Range(config.exclude_dirs)
        /\ ~visited[i].skip

\* every START FILE marker that its content and END FILE marker do not
\* follow belongs to a file for which a write failed
DanglingOnlyByWriteFailure ==
    \A f \in Files :
        (\E i \in StartWrites(f.path) : ~Closed(i)) => Warned(f.path, "write")

\* C10: a turn of the loop that ends in a warning for an open or a read
\* failure leaves the output as it was, and a START FILE marker without its
\* END FILE marker is there only for a file for which a write failed.
C10_ReadFailureLeavesOutput ==
    [][/\ (/\ Len(stderr') = Len(stderr) + 1
           /\ stderr'[Len(stderr')].err \in {"open", "read"}) => output' = output
       /\ DanglingOnlyByWriteFailure']_vars

\* C10's case: files were bundled, then a file failed at open or at read and
\* has no marker in the output.
C10_Witness ==
    /\ output # <<>>
    /\ \E i \in 1..Len(stderr) :
          /\ stderr[i].err \in {"open", "read"}
          /\ StartWrites(stderr[i].path) = {}
          /\ \E j \in 1..Len(visited) : \E k \in 1..Len(visited) :
                /\ j < k
                /\ Bundled(visited[j].path)
                /\ visited[k].path = stderr[i].path
====
